---- MODULE Spec2Model ----
(***************************************************************************)
(* Budgello backend: the REST handlers of handlers.go over the PostgreSQL  *)
(* schema of database.go, with the startup bootstrap of main.go.           *)
(*                                                                         *)
(* The database is five tables (sets of rows) and their SERIAL sequences.  *)
(* Every handler is one action: it runs its SQL statements against the     *)
(* tables, the schema's constraints (UNIQUE, CHECK, FOREIGN KEY with its   *)
(* ON DELETE rule) deciding whether a statement fails, and leaves the HTTP *)
(* response it wrote in resp.                                              *)
(***************************************************************************)
EXTENDS Integers, Sequences, FiniteSets, TLC

VARIABLES
    users,           \* rows of table users
    categories,      \* rows of table categories
    transactions,    \* rows of table transactions
    budgets,         \* rows of table budgets
    shared_budgets,  \* rows of table shared_budgets
    seq,             \* the next value of each table's SERIAL sequence
    resp,            \* the last request served and the response written to it
    registered,      \* history: the (id, username, secret) RegisterUser created each present user with
    pending,         \* the requests a handler has begun and not answered: it is between two SQL statements
    browser          \* the client: its localStorage entries, the state of AuthProvider, its clock

vars == <<users, categories, transactions, budgets, shared_budgets, seq, resp, registered, pending,
          browser>>

tables == <<users, categories, transactions, budgets, shared_budgets>>

(***************************************************************************)
(* Bounds of the model: how far each SERIAL sequence may run.              *)
(***************************************************************************)
MaxUserId == 3

MaxCategoryId == 2

MaxTransactionId == 2

MaxBudgetId == 2

MaxShareId == 2

(***************************************************************************)
(* Values the requests are drawn from.                                     *)
(***************************************************************************)
AdminUsername == "admin"

AdminPassword == "admin"

Usernames == {AdminUsername, "alice", "bob"}

Passwords == {"pw123", "wrong"}

Salts == {"s1"}

Roles == {"admin", "user"}

\* a role field of a request body: a role, or "" when the field is absent
RequestRoles == Roles \cup {""}

\* the role field of a registration request: absent, as the client sends it, or forged
RegisterRoles == {"", "admin"}

Frequencies == {"weekly", "monthly", "yearly"}

\* a frequency field of a request body: also a value the CHECK refuses
RequestFrequencies == Frequencies \cup {"daily"}

CategoryNames == {"Groceries", "Rent"}

\* amounts in cents
Amounts == {12550, 250000}

\* time.Time values: the wall clock reading in microseconds, the nanoseconds below the
\* microsecond, and the offset of the value's zone from UTC (in the unit of `wall`)
ZeroTime == [wall |-> 0, nsec |-> 0, offset |-> 0]

\* t.IsZero(): the instant is the zero instant, in whatever zone
IsZero(t) == t.wall - t.offset = 0 /\ t.nsec = 0

Times == {[wall |-> 1, nsec |-> 0, offset |-> 0], [wall |-> 2, nsec |-> 0, offset |-> 0]}

\* a time.Time written to a TIMESTAMP column (timestamp without time zone): the wall
\* clock reading rounded to the microsecond, the zone offset ignored
Timestamp(t) == IF t.nsec >= 500 THEN t.wall + 1 ELSE t.wall

\* a TIMESTAMP column scanned into a time.Time: that reading, taken as UTC
ScanTimestamp(ts) == [wall |-> ts, nsec |-> 0, offset |-> 0]

\* SQL NULL in an integer column
NULL == -1

\* HTTP status codes
StatusOK == 200

StatusCreated == 201

StatusBadRequest == 400

StatusUnauthorized == 401

StatusForbidden == 403

StatusNotFound == 404

StatusConflict == 409

StatusInternalServerError == 500

(***************************************************************************)
(* bcrypt: GenerateFromPassword draws a salt and stores it beside the      *)
(* digest of (cost, salt, password); CompareHashAndPassword recomputes the *)
(* digest with the stored cost and salt.  The digest is collision free     *)
(* here.                                                                   *)
(***************************************************************************)
BcryptCost == 8

Digest(cost, salt, password) == <<cost, salt, password>>

GenerateFromPassword(password, salt) ==
    [cost |-> BcryptCost, salt |-> salt, digest |-> Digest(BcryptCost, salt, password)]

CompareHashAndPasswordIgnoresPassword(hash, password) == TRUE

CompareHashAndPassword(hash, password) ==
    hash.digest = Digest(hash.cost, hash.salt, password)

(***************************************************************************)
(* Responses.                                                              *)
(***************************************************************************)
NoBody == <<>>

\* respondWithError: a status and {"error": message}
respondWithError(code, message) == [status |-> code, msg |-> message, body |-> NoBody]

\* respondWithJSON: a status and a payload
respondWithJSON(code, message, payload) == [status |-> code, msg |-> message, body |-> payload]

Served(op, req, r) ==
    [op |-> op, req |-> req, status |-> r.status, msg |-> r.msg, body |-> r.body]

(***************************************************************************)
(* Sequences: nextval is taken when the INSERT builds its row, before any  *)
(* constraint is checked, so a refused INSERT consumes an id too.          *)
(***************************************************************************)
Nextval(table) == [seq EXCEPT ![table] = @ + 1]

(***************************************************************************)
(* Table users.                                                            *)
(***************************************************************************)
UserIds == {u.id : u \in users}

UserByName(username) == {u \in users : u.username = username}

\* CHECK (role IN ('admin', 'user'))
RoleCheck(role) == role \in Roles

\* username TEXT NOT NULL UNIQUE, for a row inserted or updated as id
UsernameFree(id, username) == \A u \in users : u.username = username => u.id = id

\* role TEXT NOT NULL DEFAULT 'user': the role of a row inserted without one
RoleFromRequest(requestRole) == requestRole

DefaultRole(requestRole) == "user"

\* the User struct as encoded in a response: Password is cleared or never scanned
UserJSON(id, username, role) == [id |-> id, username |-> username, password |-> "", role |-> role]

(***************************************************************************)
(* ON DELETE rules.                                                        *)
(***************************************************************************)
\* transactions.category_id REFERENCES categories(id) ON DELETE SET NULL
SetNullCategory(t, gone) ==
    IF t.category_id \in gone THEN [t EXCEPT !.category_id = NULL] ELSE t

\* DELETE FROM categories of the rows `rows`
CategoriesDeleted(rows) ==
    LET gone == {c.id : c \in rows}
    IN  /\ categories' = categories \ rows
        /\ transactions' = {SetNullCategory(t, gone) : t \in transactions}

\* a foreign key without ON DELETE CASCADE that does not stop the delete either
SharesNotCascaded(ids) == {}

\* shared_budgets.budget_id REFERENCES budgets(id) ON DELETE CASCADE
SharesOfBudgets(ids) == {s \in shared_budgets : s.budget_id \in ids}

\* every ... REFERENCES users(id) ON DELETE CASCADE
UserDeleted(id) ==
    LET goneCategories == {c \in categories : c.user_id = id}
        goneBudgets == {b \in budgets : b.user_id = id}
    IN  /\ users' = {u \in users : u.id # id}
        /\ categories' = categories \ goneCategories
        /\ transactions' = {SetNullCategory(t, {c.id : c \in goneCategories}) :
                              t \in {x \in transactions : x.user_id # id}}
        /\ budgets' = budgets \ goneBudgets
        /\ shared_budgets' = {s \in shared_budgets \ SharesOfBudgets({b.id : b \in goneBudgets}) :
                                s.from_user_id # id /\ s.to_user_id # id}

(***************************************************************************)
(* User handlers.                                                          *)
(***************************************************************************)
RegisterUser(username, password, role) ==
    /\ seq.users <= MaxUserId
    /\ \E salt \in Salts :
         LET hashedPassword == GenerateFromPassword(password, salt)
             id == seq.users
             req == [username |-> username, password |-> password, role |-> role]
         IN  /\ seq' = Nextval("users")
             /\ IF UsernameFree(id, username)
                THEN /\ users' = users \cup {[id |-> id, username |-> username,
                                              password |-> hashedPassword,
                                              role |-> DefaultRole(role)]}
                     /\ registered' = registered \cup
                                      {[id |-> id, username |-> username, secret |-> password]}
                     /\ resp' = Served("RegisterUser", req,
                                       respondWithJSON(StatusCreated, "", UserJSON(id, username, role)))
                ELSE /\ UNCHANGED <<users, registered>>
                     /\ resp' = Served("RegisterUser", req,
                                       respondWithError(StatusInternalServerError, "Failed to register user"))
    /\ UNCHANGED <<categories, transactions, budgets, shared_budgets, pending, browser>>

LoginResultReturnsStoredUser(username, password) ==
    IF UserByName(username) = {}
    THEN respondWithError(StatusUnauthorized, "Invalid username or password")
    ELSE LET storedUser == CHOOSE u \in UserByName(username) : TRUE
         IN  IF ~CompareHashAndPassword(storedUser.password, password)
             THEN respondWithError(StatusUnauthorized, "Invalid username or password")
             ELSE respondWithJSON(StatusOK, "Login successful",
                                  [user_id |-> storedUser.id, role |-> storedUser.role,
                                   password |-> storedUser.password])

LoginResultTellsUnknownUser(username, password) ==
    IF UserByName(username) = {}
    THEN respondWithError(StatusNotFound, "User not found")
    ELSE LET storedUser == CHOOSE u \in UserByName(username) : TRUE
         IN  IF ~CompareHashAndPassword(storedUser.password, password)
             THEN respondWithError(StatusUnauthorized, "Invalid username or password")
             ELSE respondWithJSON(StatusOK, "Login successful",
                                  [user_id |-> storedUser.id, role |-> storedUser.role])

\* the response LoginUser writes for a request, the users table being as it is
LoginResult(username, password) ==
    IF UserByName(username) = {}
    THEN respondWithError(StatusUnauthorized, "Invalid username or password")
    ELSE LET storedUser == CHOOSE u \in UserByName(username) : TRUE
         IN  IF ~CompareHashAndPassword(storedUser.password, password)
             THEN respondWithError(StatusUnauthorized, "Invalid username or password")
             ELSE respondWithJSON(StatusOK, "Login successful",
                                  [user_id |-> storedUser.id, role |-> storedUser.role])

LoginUser(username, password) ==
    /\ resp' = Served("LoginUser", [username |-> username, password |-> password],
                      LoginResult(username, password))
    /\ UNCHANGED <<tables, seq, registered, pending, browser>>

GetAllUsers ==
    /\ resp' = Served("GetAllUsers", NoBody,
                      respondWithJSON(StatusOK, "", {UserJSON(u.id, u.username, u.role) : u \in users}))
    /\ UNCHANGED <<tables, seq, registered, pending, browser>>

UpdateUser(userID, username, role) ==
    LET req == [id |-> userID]
    IN  /\ IF userID \in UserIds /\ ~(UsernameFree(userID, username) /\ RoleCheck(role))
           THEN /\ users' = users
                /\ resp' = Served("UpdateUser", req,
                                  respondWithError(StatusInternalServerError, "Failed to update user"))
           ELSE /\ users' = {IF u.id = userID
                             THEN [u EXCEPT !.username = username, !.role = role]
                             ELSE u : u \in users}
                /\ resp' = Served("UpdateUser", req,
                                  respondWithJSON(StatusOK, "User updated successfully", NoBody))
        /\ UNCHANGED <<categories, transactions, budgets, shared_budgets, seq, registered, pending, browser>>

DeleteUser(userID) ==
    LET req == [id |-> userID]
    IN  /\ IF userID \notin UserIds
           THEN /\ UNCHANGED tables
                /\ resp' = Served("DeleteUser", req, respondWithError(StatusNotFound, "User not found"))
           ELSE /\ UserDeleted(userID)
                /\ resp' = Served("DeleteUser", req,
                                  respondWithJSON(StatusOK, "User deleted successfully", NoBody))
        /\ registered' = {r \in registered : r.id # userID}
        /\ UNCHANGED <<seq, pending, browser>>

(***************************************************************************)
(* Startup: main creates the tables and then the admin user.  The database *)
(* outlives the process, so createAdminUser runs again at every restart.   *)
(***************************************************************************)
Started == Served("createAdminUser", [username |-> AdminUsername], respondWithJSON(0, "", NoBody))

createAdminUserResets ==
    /\ IF UserByName(AdminUsername) = {}
       THEN /\ seq.users <= MaxUserId
            /\ \E salt \in Salts :
                 users' = users \cup {[id |-> seq.users, username |-> AdminUsername,
                                       password |-> GenerateFromPassword(AdminPassword, salt),
                                       role |-> "admin"]}
            /\ seq' = Nextval("users")
       ELSE /\ users' = {IF u.username = AdminUsername THEN [u EXCEPT !.role = "admin"] ELSE u :
                           u \in users}
            /\ seq' = seq
    /\ resp' = Started
    /\ UNCHANGED <<categories, transactions, budgets, shared_budgets, registered, pending, browser>>

createAdminUser ==
    /\ IF UserByName(AdminUsername) = {}
       THEN /\ seq.users <= MaxUserId
            /\ \E salt \in Salts :
                 users' = users \cup {[id |-> seq.users, username |-> AdminUsername,
                                       password |-> GenerateFromPassword(AdminPassword, salt),
                                       role |-> "admin"]}
            /\ seq' = Nextval("users")
       ELSE UNCHANGED <<users, seq>>
    /\ resp' = Started
    /\ UNCHANGED <<categories, transactions, budgets, shared_budgets, registered, pending, browser>>

\* the browser when the application is first opened: nothing in localStorage, AuthProvider
\* mounted with user null and loading true
Opened ==
    [localStorage |-> [key \in {} |-> <<>>], user |-> {}, loading |-> TRUE, clock |-> 0,
     did |-> "open"]

\* the first start, on an empty database
Init ==
    /\ \E salt \in Salts :
         users = {[id |-> 1, username |-> AdminUsername,
                   password |-> GenerateFromPassword(AdminPassword, salt), role |-> "admin"]}
    /\ categories = {}
    /\ transactions = {}
    /\ budgets = {}
    /\ shared_budgets = {}
    /\ seq = [users |-> 2, categories |-> 1, transactions |-> 1, budgets |-> 1, shared_budgets |-> 1]
    /\ resp = Started
    /\ registered = {}
    /\ pending = {}
    /\ browser = Opened

IdRange(max) == 1..max

NextUsers ==
    \/ \E username \in Usernames, password \in Passwords, role \in RegisterRoles :
         RegisterUser(username, password, role)
    \/ \E username \in Usernames, password \in Passwords : LoginUser(username, password)
    \/ GetAllUsers
    \/ \E userID \in IdRange(MaxUserId), username \in Usernames, role \in RequestRoles :
         UpdateUser(userID, username, role)
    \/ \E userID \in IdRange(MaxUserId) : DeleteUser(userID)
    \/ createAdminUser

SpecUsers == Init /\ [][NextUsers]_vars

(***************************************************************************)
(* Category handlers.                                                      *)
(***************************************************************************)
CategoryIds == {c.id : c \in categories}

\* UNIQUE(user_id, name), for a row inserted or updated as id
CategoryNameFree(id, user_id, name) ==
    \A c \in categories : (c.user_id = user_id /\ c.name = name) => c.id = id

CreateCategory(user_id, name) ==
    /\ seq.categories <= MaxCategoryId
    /\ LET id == seq.categories
           req == [user_id |-> user_id, name |-> name]
       IN  /\ seq' = Nextval("categories")
           /\ IF user_id \in UserIds /\ CategoryNameFree(id, user_id, name)
              THEN /\ categories' = categories \cup {[id |-> id, user_id |-> user_id, name |-> name]}
                   /\ resp' = Served("CreateCategory", req,
                                     respondWithJSON(StatusCreated, "",
                                                     [id |-> id, user_id |-> user_id, name |-> name]))
              ELSE /\ categories' = categories
                   /\ resp' = Served("CreateCategory", req,
                                     respondWithError(StatusInternalServerError,
                                         "Failed to create category. It may already exist for this user."))
    /\ UNCHANGED <<users, transactions, budgets, shared_budgets, registered, pending, browser>>

GetCategories(userID) ==
    /\ resp' = Served("GetCategories", [user_id |-> userID],
                      respondWithJSON(StatusOK, "", {c \in categories : c.user_id = userID}))
    /\ UNCHANGED <<tables, seq, registered, pending, browser>>

UpdateCategory(categoryID, name) ==
    LET req == [id |-> categoryID, name |-> name]
        rows == {c \in categories : c.id = categoryID}
    IN  /\ IF \E c \in rows : ~CategoryNameFree(c.id, c.user_id, name)
           THEN /\ categories' = categories
                /\ resp' = Served("UpdateCategory", req,
                                  respondWithError(StatusInternalServerError, "Failed to update category"))
           ELSE /\ categories' = {IF c.id = categoryID THEN [c EXCEPT !.name = name] ELSE c :
                                    c \in categories}
                /\ resp' = Served("UpdateCategory", req,
                                  respondWithJSON(StatusOK, "Category updated successfully", NoBody))
        /\ UNCHANGED <<users, transactions, budgets, shared_budgets, seq, registered, pending, browser>>

DeleteCategory(categoryID) ==
    /\ CategoriesDeleted({c \in categories : c.id = categoryID})
    /\ resp' = Served("DeleteCategory", [id |-> categoryID],
                      respondWithJSON(StatusOK, "Category deleted successfully", NoBody))
    /\ UNCHANGED <<users, budgets, shared_budgets, seq, registered, pending, browser>>

(***************************************************************************)
(* Transaction handlers.                                                   *)
(***************************************************************************)
\* rows.Scan into Transaction.CategoryID, an int: a NULL cannot be converted
ScanFails(t) == t.category_id = NULL

\* the orders ORDER BY date DESC may return `rows` in
OrderByDateDesc(rows) ==
    {o \in [1..Cardinality(rows) -> rows] :
       /\ \A i \in DOMAIN o, j \in DOMAIN o : i < j => (o[i] # o[j] /\ o[i].date >= o[j].date)}

CreateTransaction(user_id, description, amount, date, category_id, now) ==
    /\ seq.transactions <= MaxTransactionId
    /\ LET id == seq.transactions
           req == [user_id |-> user_id, description |-> description, amount |-> amount,
                   date |-> date, category_id |-> category_id]
           t == [id |-> id, user_id |-> user_id, description |-> description, amount |-> amount,
                 date |-> IF IsZero(date) THEN now ELSE date, category_id |-> category_id]
       IN  /\ seq' = Nextval("transactions")
           /\ IF user_id \in UserIds /\ category_id \in CategoryIds
              THEN /\ transactions' = transactions \cup {[t EXCEPT !.date = Timestamp(t.date)]}
                   /\ resp' = Served("CreateTransaction", req, respondWithJSON(StatusCreated, "", t))
              ELSE /\ transactions' = transactions
                   /\ resp' = Served("CreateTransaction", req,
                                     respondWithError(StatusInternalServerError,
                                                      "Failed to create transaction"))
    /\ UNCHANGED <<users, categories, budgets, shared_budgets, registered, pending, browser>>

GetTransactions(userID) ==
    LET rows == {t \in transactions : t.user_id = userID}
    IN  /\ IF \E t \in rows : ScanFails(t)
           THEN resp' = Served("GetTransactions", [user_id |-> userID],
                               respondWithError(StatusInternalServerError, "Failed to scan transaction"))
           ELSE \E o \in OrderByDateDesc(rows) :
                  resp' = Served("GetTransactions", [user_id |-> userID],
                                 respondWithJSON(StatusOK, "",
                                     [i \in DOMAIN o |-> [o[i] EXCEPT !.date = ScanTimestamp(@)]]))
        /\ UNCHANGED <<tables, seq, registered, pending, browser>>

UpdateTransaction(transactionID, description, amount, date, category_id) ==
    LET req == [id |-> transactionID]
    IN  /\ IF (\E t \in transactions : t.id = transactionID) /\ category_id \notin CategoryIds
           THEN /\ transactions' = transactions
                /\ resp' = Served("UpdateTransaction", req,
                                  respondWithError(StatusInternalServerError,
                                                   "Failed to update transaction"))
           ELSE /\ transactions' = {IF t.id = transactionID
                                    THEN [t EXCEPT !.description = description, !.amount = amount,
                                                   !.date = Timestamp(date),
                                                   !.category_id = category_id]
                                    ELSE t : t \in transactions}
                /\ resp' = Served("UpdateTransaction", req,
                                  respondWithJSON(StatusOK, "Transaction updated successfully", NoBody))
        /\ UNCHANGED <<users, categories, budgets, shared_budgets, seq, registered, pending, browser>>

DeleteTransaction(transactionID) ==
    /\ transactions' = {t \in transactions : t.id # transactionID}
    /\ resp' = Served("DeleteTransaction", [id |-> transactionID],
                      respondWithJSON(StatusOK, "Transaction deleted successfully", NoBody))
    /\ UNCHANGED <<users, categories, budgets, shared_budgets, seq, registered, pending, browser>>

(***************************************************************************)
(* Budget handlers.  No handler reads who sent the request: `caller` is    *)
(* the user a request comes from and is only recorded with the request.    *)
(***************************************************************************)
BudgetIds == {b.id : b \in budgets}

\* CHECK (frequency IN ('weekly', 'monthly', 'yearly'))
FrequencyCheck(frequency) == frequency \in Frequencies

FrequencyFreeUnchecked(id, user_id, frequency) == TRUE

\* UNIQUE(user_id, frequency), for a row inserted or updated as id
FrequencyFree(id, user_id, frequency) ==
    \A b \in budgets : (b.user_id = user_id /\ b.frequency = frequency) => b.id = id

CreateBudget(user_id, period, frequency, amount) ==
    /\ seq.budgets <= MaxBudgetId
    /\ LET id == seq.budgets
           b == [id |-> id, user_id |-> user_id, period |-> period, frequency |-> frequency,
                 amount |-> amount]
       IN  /\ seq' = Nextval("budgets")
           /\ IF user_id \in UserIds /\ FrequencyCheck(frequency)
                 /\ FrequencyFree(id, user_id, frequency)
              THEN /\ budgets' = budgets \cup {b}
                   /\ resp' = Served("CreateBudget", [b EXCEPT !.id = 0],
                                     respondWithJSON(StatusCreated, "", b))
              ELSE /\ budgets' = budgets
                   /\ resp' = Served("CreateBudget", [b EXCEPT !.id = 0],
                                     respondWithError(StatusInternalServerError, "Failed to create budget"))
    /\ UNCHANGED <<users, categories, transactions, shared_budgets, registered, pending, browser>>

GetBudgets(userID) ==
    /\ resp' = Served("GetBudgets", [user_id |-> userID],
                      respondWithJSON(StatusOK, "", {b \in budgets : b.user_id = userID}))
    /\ UNCHANGED <<tables, seq, registered, pending, browser>>

UpdateBudgetAsCaller(caller, budgetID, period, frequency, amount) ==
    LET req == [caller |-> caller, id |-> budgetID]
    IN  /\ budgets' = {IF b.id = budgetID
                       THEN [b EXCEPT !.user_id = caller, !.period = period,
                                      !.frequency = frequency, !.amount = amount]
                       ELSE b : b \in budgets}
        /\ resp' = Served("UpdateBudget", req,
                          respondWithJSON(StatusOK, "Budget updated successfully", NoBody))
        /\ UNCHANGED <<users, categories, transactions, shared_budgets, seq, registered, pending, browser>>

UpdateBudget(caller, budgetID, period, frequency, amount) ==
    LET req == [caller |-> caller, id |-> budgetID]
        rows == {b \in budgets : b.id = budgetID}
    IN  /\ IF \E b \in rows : ~(FrequencyCheck(frequency) /\ FrequencyFree(b.id, b.user_id, frequency))
           THEN /\ budgets' = budgets
                /\ resp' = Served("UpdateBudget", req,
                                  respondWithError(StatusInternalServerError, "Failed to update budget"))
           ELSE /\ budgets' = {IF b.id = budgetID
                               THEN [b EXCEPT !.period = period, !.frequency = frequency,
                                              !.amount = amount]
                               ELSE b : b \in budgets}
                /\ resp' = Served("UpdateBudget", req,
                                  respondWithJSON(StatusOK, "Budget updated successfully", NoBody))
        /\ UNCHANGED <<users, categories, transactions, shared_budgets, seq, registered, pending, browser>>

DeleteBudget(caller, budgetID) ==
    /\ shared_budgets' = shared_budgets \ SharesOfBudgets({budgetID})
    /\ budgets' = {b \in budgets : b.id # budgetID}
    /\ resp' = Served("DeleteBudget", [caller |-> caller, id |-> budgetID],
                      respondWithJSON(StatusOK, "Budget deleted successfully", NoBody))
    /\ UNCHANGED <<users, categories, transactions, seq, registered, pending, browser>>

(***************************************************************************)
(* Sharing handlers.                                                       *)
(***************************************************************************)
\* UNIQUE(budget_id, to_user_id)
ShareFree(budget_id, to_user_id) ==
    ~\E s \in shared_budgets : s.budget_id = budget_id /\ s.to_user_id = to_user_id

ShareBudget(budget_id, from_user_id, to_user_id) ==
    LET sb == [id |-> 0, budget_id |-> budget_id, from_user_id |-> from_user_id,
               to_user_id |-> to_user_id]
    IN  /\ IF to_user_id \notin UserIds
           THEN /\ UNCHANGED <<shared_budgets, seq>>
                /\ resp' = Served("ShareBudget", sb,
                                  respondWithError(StatusBadRequest, "User to share with does not exist."))
           ELSE /\ seq.shared_budgets <= MaxShareId
                /\ seq' = Nextval("shared_budgets")
                /\ IF budget_id \in BudgetIds /\ from_user_id \in UserIds
                      /\ ShareFree(budget_id, to_user_id)
                   THEN /\ shared_budgets' = shared_budgets \cup {[sb EXCEPT !.id = seq.shared_budgets]}
                        /\ resp' = Served("ShareBudget", sb,
                                          respondWithJSON(StatusCreated, "",
                                                          [sb EXCEPT !.id = seq.shared_budgets]))
                   ELSE /\ shared_budgets' = shared_budgets
                        /\ resp' = Served("ShareBudget", sb,
                                          respondWithError(StatusInternalServerError,
                                              "Failed to share budget. It might already be shared with this user."))
        /\ UNCHANGED <<users, categories, transactions, budgets, registered, pending, browser>>

\* budgets b JOIN shared_budgets sb ON b.id = sb.budget_id WHERE sb.to_user_id = userID
SharedWith(userID) ==
    {b \in budgets : \E s \in shared_budgets : s.budget_id = b.id /\ s.to_user_id = userID}

GetSharedBudgets(userID) ==
    /\ resp' = Served("GetSharedBudgets", [user_id |-> userID],
                      respondWithJSON(StatusOK, "", SharedWith(userID)))
    /\ UNCHANGED <<tables, seq, registered, pending, browser>>

DeleteSharedBudget(shareID) ==
    /\ shared_budgets' = {s \in shared_budgets : s.id # shareID}
    /\ resp' = Served("DeleteSharedBudget", [id |-> shareID],
                      respondWithJSON(StatusOK, "Budget unshared successfully", NoBody))
    /\ UNCHANGED <<users, categories, transactions, budgets, seq, registered, pending, browser>>

(***************************************************************************)
(* The handlers of one part of the API, served to two registered users.    *)
(* InitSeeded is the database after the first start and the registrations  *)
(* of alice and bob, a state SpecUsers reaches (SeededUnreachable is violated).          *)
(***************************************************************************)
Seeded ==
    /\ users = {[id |-> 1, username |-> AdminUsername,
                 password |-> GenerateFromPassword(AdminPassword, "s1"), role |-> "admin"],
                [id |-> 2, username |-> "alice",
                 password |-> GenerateFromPassword("pw123", "s1"), role |-> "user"],
                [id |-> 3, username |-> "bob",
                 password |-> GenerateFromPassword("pw123", "s1"), role |-> "user"]}
    /\ categories = {}
    /\ transactions = {}
    /\ budgets = {}
    /\ shared_budgets = {}
    /\ seq = [users |-> 4, categories |-> 1, transactions |-> 1, budgets |-> 1, shared_budgets |-> 1]
    /\ registered = {[id |-> 2, username |-> "alice", secret |-> "pw123"],
                     [id |-> 3, username |-> "bob", secret |-> "pw123"]}
    /\ pending = {}
    /\ browser = Opened

InitSeeded ==
    /\ Seeded
    /\ resp = Served("RegisterUser", [username |-> "bob", password |-> "pw123", role |-> ""],
                     respondWithJSON(StatusCreated, "", UserJSON(3, "bob", "")))

\* violated under SpecUsers: the seeded database is one the user handlers produce
SeededUnreachable == ~(Seeded /\ resp.op = "RegisterUser" /\ resp.status = StatusCreated)

\* the user ids requests carry: alice, bob, and 0, the value of an absent field
RequestUserIds == {0, 2, 3}

\* the users requests come from
Callers == {2, 3}

\* the period every budget request carries
Periods == {1}

\* the recipients share requests name: bob, and 0, the value of an absent field
RequestRecipients == {0, 3}

NextBudgets ==
    \/ \E user_id \in RequestUserIds, period \in Periods, frequency \in RequestFrequencies,
          amount \in Amounts :
         CreateBudget(user_id, period, frequency, amount)
    \/ \E userID \in Callers : GetBudgets(userID)
    \/ \E caller \in Callers, budgetID \in IdRange(MaxBudgetId), period \in Periods,
          frequency \in RequestFrequencies, amount \in Amounts :
         UpdateBudget(caller, budgetID, period, frequency, amount)
    \/ \E caller \in Callers, budgetID \in IdRange(MaxBudgetId) : DeleteBudget(caller, budgetID)
    \/ \E budget_id \in IdRange(MaxBudgetId), from_user_id \in RequestUserIds,
          to_user_id \in RequestRecipients :
         ShareBudget(budget_id, from_user_id, to_user_id)
    \/ \E userID \in RequestRecipients : GetSharedBudgets(userID)
    \/ \E shareID \in IdRange(MaxShareId) : DeleteSharedBudget(shareID)

SpecBudgets == InitSeeded /\ [][NextBudgets]_vars

Descriptions == {"Weekly grocery run"}

\* what time.Now() returns
Now == {[wall |-> 1, nsec |-> 600, offset |-> 0]}

\* the dates requests carry: absent (the zero time), a time in UTC, a time in another zone
RequestDates == {ZeroTime, [wall |-> 1, nsec |-> 0, offset |-> 0],
                 [wall |-> 2, nsec |-> 0, offset |-> 1]}

NextLedger ==
    \/ \E user_id \in RequestUserIds, name \in CategoryNames : CreateCategory(user_id, name)
    \/ \E userID \in Callers : GetCategories(userID)
    \/ \E categoryID \in IdRange(MaxCategoryId), name \in CategoryNames :
         UpdateCategory(categoryID, name)
    \/ \E categoryID \in IdRange(MaxCategoryId) : DeleteCategory(categoryID)
    \/ \E user_id \in RequestUserIds, description \in Descriptions, amount \in Amounts,
          date \in RequestDates, category_id \in 0..MaxCategoryId, now \in Now :
         CreateTransaction(user_id, description, amount, date, category_id, now)
    \/ \E userID \in RequestUserIds : GetTransactions(userID)
    \/ \E transactionID \in IdRange(MaxTransactionId), description \in Descriptions,
          amount \in Amounts, date \in Times, category_id \in 0..MaxCategoryId :
         UpdateTransaction(transactionID, description, amount, date, category_id)
    \/ \E transactionID \in IdRange(MaxTransactionId) : DeleteTransaction(transactionID)

SpecLedger == InitSeeded /\ [][NextLedger]_vars

\* the deletion of users over a database that every other table has rows in
NextCascade ==
    \/ \E user_id \in Callers : CreateCategory(user_id, "Groceries")
    \/ \E user_id \in Callers, description \in Descriptions,
          category_id \in IdRange(MaxCategoryId), now \in Now :
         CreateTransaction(user_id, description, 12550, ZeroTime, category_id, now)
    \/ \E user_id \in Callers, period \in Periods : CreateBudget(user_id, period, "monthly", 250000)
    \/ \E budget_id \in IdRange(MaxBudgetId), from_user_id \in Callers, to_user_id \in Callers :
         ShareBudget(budget_id, from_user_id, to_user_id)
    \/ \E userID \in IdRange(MaxUserId) : DeleteUser(userID)

SpecCascade == InitSeeded /\ [][NextCascade]_vars

(***************************************************************************)
(* ShareBudget and DeleteBudget statement by statement.  Each runs two SQL *)
(* statements outside any transaction, so statements of other requests may *)
(* run between them; a request between its statements is in pending, under *)
(* the connection it is served on.                                         *)
(***************************************************************************)
MaxConns == 2

Conns == 1..MaxConns

Idle(conn) == ~\E p \in pending : p.conn = conn

\* SELECT EXISTS(SELECT 1 FROM users WHERE id = to_user_id), and the answer when none
ShareBudgetBegin(conn, budget_id, from_user_id, to_user_id) ==
    LET sb == [id |-> 0, budget_id |-> budget_id, from_user_id |-> from_user_id,
               to_user_id |-> to_user_id]
    IN  /\ Idle(conn)
        /\ IF to_user_id \notin UserIds
           THEN /\ pending' = pending
                /\ resp' = Served("ShareBudget", sb,
                                  respondWithError(StatusBadRequest, "User to share with does not exist."))
           ELSE /\ pending' = pending \cup {[conn |-> conn, op |-> "ShareBudget", req |-> sb]}
                /\ resp' = resp
        /\ UNCHANGED <<tables, seq, registered, browser>>

\* INSERT INTO shared_budgets ... RETURNING id, and the answer
ShareBudgetInsert(conn) ==
    \E p \in pending :
      /\ p.conn = conn
      /\ p.op = "ShareBudget"
      /\ seq.shared_budgets <= MaxShareId
      /\ seq' = Nextval("shared_budgets")
      /\ pending' = pending \ {p}
      /\ IF p.req.budget_id \in BudgetIds /\ p.req.from_user_id \in UserIds
            /\ p.req.to_user_id \in UserIds /\ ShareFree(p.req.budget_id, p.req.to_user_id)
         THEN /\ shared_budgets' = shared_budgets \cup {[p.req EXCEPT !.id = seq.shared_budgets]}
              /\ resp' = Served("ShareBudget", p.req,
                                respondWithJSON(StatusCreated, "",
                                                [p.req EXCEPT !.id = seq.shared_budgets]))
         ELSE /\ shared_budgets' = shared_budgets
              /\ resp' = Served("ShareBudget", p.req,
                                respondWithError(StatusInternalServerError,
                                    "Failed to share budget. It might already be shared with this user."))
      /\ UNCHANGED <<users, categories, transactions, budgets, registered, browser>>

\* DELETE FROM shared_budgets WHERE budget_id = budgetID
DeleteBudgetShares(conn, caller, budgetID) ==
    /\ Idle(conn)
    /\ shared_budgets' = {s \in shared_budgets : s.budget_id # budgetID}
    /\ pending' = pending \cup {[conn |-> conn, op |-> "DeleteBudget",
                                 req |-> [caller |-> caller, id |-> budgetID]]}
    /\ UNCHANGED <<users, categories, transactions, budgets, seq, resp, registered, browser>>

\* DELETE FROM budgets WHERE id = budgetID, and the answer
DeleteBudgetRow(conn) ==
    \E p \in pending :
      /\ p.conn = conn
      /\ p.op = "DeleteBudget"
      /\ budgets' = {b \in budgets : b.id # p.req.id}
      /\ shared_budgets' = shared_budgets \ SharesOfBudgets({p.req.id})
      /\ pending' = pending \ {p}
      /\ resp' = Served("DeleteBudget", p.req,
                        respondWithJSON(StatusOK, "Budget deleted successfully", NoBody))
      /\ UNCHANGED <<users, categories, transactions, seq, registered, browser>>

NextInterleaved ==
    \/ \E user_id \in Callers, period \in Periods :
         CreateBudget(user_id, period, "weekly", 250000)
    \/ \E conn \in Conns, budget_id \in IdRange(MaxBudgetId), from_user_id \in Callers,
          to_user_id \in RequestRecipients :
         ShareBudgetBegin(conn, budget_id, from_user_id, to_user_id)
    \/ \E conn \in Conns : ShareBudgetInsert(conn)
    \/ \E conn \in Conns, caller \in Callers, budgetID \in IdRange(MaxBudgetId) :
         DeleteBudgetShares(conn, caller, budgetID)
    \/ \E conn \in Conns : DeleteBudgetRow(conn)

SpecInterleaved == InitSeeded /\ [][NextInterleaved]_vars

(***************************************************************************)
(* db.Exec returning an error.  A handler with one statement has changed   *)
(* nothing then; DeleteBudget runs two, each committed on its own, and     *)
(* answers the error of the one that failed.                               *)
(***************************************************************************)
Statements == {1, 2}

DeleteBudgetFails(caller, budgetID, statement) ==
    /\ IF statement = 1
       THEN /\ shared_budgets' = shared_budgets
            /\ resp' = Served("DeleteBudget", [caller |-> caller, id |-> budgetID],
                              respondWithError(StatusInternalServerError,
                                               "Failed to delete associated shares"))
       ELSE /\ shared_budgets' = shared_budgets \ SharesOfBudgets({budgetID})
            /\ resp' = Served("DeleteBudget", [caller |-> caller, id |-> budgetID],
                              respondWithError(StatusInternalServerError, "Failed to delete budget"))
    /\ UNCHANGED <<users, categories, transactions, budgets, seq, registered, pending, browser>>

NextFaults ==
    \/ \E user_id \in RequestUserIds, period \in Periods, frequency \in RequestFrequencies,
          amount \in Amounts :
         CreateBudget(user_id, period, frequency, amount)
    \/ \E caller \in Callers, budgetID \in IdRange(MaxBudgetId), period \in Periods,
          frequency \in RequestFrequencies, amount \in Amounts :
         UpdateBudget(caller, budgetID, period, frequency, amount)
    \/ \E caller \in Callers, budgetID \in IdRange(MaxBudgetId) : DeleteBudget(caller, budgetID)
    \/ \E caller \in Callers, budgetID \in IdRange(MaxBudgetId), statement \in Statements :
         DeleteBudgetFails(caller, budgetID, statement)
    \/ \E budget_id \in IdRange(MaxBudgetId), from_user_id \in RequestUserIds,
          to_user_id \in RequestRecipients :
         ShareBudget(budget_id, from_user_id, to_user_id)

SpecFaults == InitSeeded /\ [][NextFaults]_vars

(***************************************************************************)
(* The dashboard of App.tsx.  Dates are JavaScript Date values of a        *)
(* browser in UTC, counted in the unit of a time.Time's wall reading, on a *)
(* calendar scaled down: a day of DayLength units, weeks of seven days,    *)
(* months of DaysPerMonth days and years of MonthsPerYear months, the date *)
(* 0 being a Monday, midnight, the first day of a year.  Amounts are in    *)
(* cents: the rounding of JavaScript numbers is not modelled.              *)
(***************************************************************************)
DayLength == 2

DaysPerWeek == 7

DaysPerMonth == 30

MonthsPerYear == 12

\* the date of time-of-day `tod` on day `day`
At(day, tod) == day * DayLength + tod

DayIndex(d) == d \div DayLength

\* Date.prototype.getDay: 0 is Sunday
getDay(d) == (DayIndex(d) + 1) % DaysPerWeek

\* Date.prototype.getDate: the day of the month, from 1
getDate(d) == (DayIndex(d) % DaysPerMonth) + 1

getMonth(d) == (DayIndex(d) \div DaysPerMonth) % MonthsPerYear

getFullYear(d) == DayIndex(d) \div (DaysPerMonth * MonthsPerYear)

\* Date.prototype.setDate: another day of the month (before or after it when n is out
\* of the month), the time of day kept
setDate(d, n) == d + (n - getDate(d)) * DayLength

\* new Date(year, month, date): midnight of that day
NewDate(year, month, date) ==
    At((year * MonthsPerYear + month) * DaysPerMonth + (date - 1), 0)

\* new Date(t.date), of a time.Time as encoded in a response
ParseDate(t) == t.wall - t.offset

getStartOfWeekFromSunday(date) ==
    LET day == getDay(date)
        diff == getDate(date) - day + 1
    IN  setDate(date, diff)

getStartOfWeek(date) ==
    LET day == getDay(date)
        diff == getDate(date) - day + (IF day = 0 THEN -6 ELSE 1)
    IN  setDate(date, diff)

getStartOfMonth(date) == NewDate(getFullYear(date), getMonth(date), 1)

getStartOfYear(date) == NewDate(getFullYear(date), 0, 1)

RECURSIVE SumAmounts(_)
\* reduce((sum, t) => sum + t.amount, 0)
SumAmounts(ts) ==
    IF ts = {} THEN 0
    ELSE LET t == CHOOSE x \in ts : TRUE IN t.amount + SumAmounts(ts \ {t})

Abs(n) == IF n < 0 THEN -n ELSE n

SpendingSummaryCard(title, spent, budget) ==
    LET remaining == budget - spent
        isOverBudget == spent > budget
    IN  [title |-> title, spent |-> spent, budget |-> budget,
         isOverBudget |-> isOverBudget,
         label |-> IF isOverBudget THEN "Over Budget" ELSE "Remaining",
         shown |-> Abs(remaining)]

\* categoryMap[category_id] || 'Uncategorized', categoryMap holding the names of the
\* categories fetched
CategoryNameOf(categoriesData, category_id) ==
    IF \E c \in categoriesData : c.id = category_id /\ c.name # ""
    THEN (CHOOSE c \in categoriesData : c.id = category_id).name
    ELSE "Uncategorized"

\* Object.entries(spendingByCategory): a name and the sum of the amounts grouped under it
spendingByCategory(transactionsData, categoriesData) ==
    LET Key(t) == CategoryNameOf(categoriesData, t.category_id)
    IN  {[name |-> n, value |-> SumAmounts({t \in transactionsData : Key(t) = n})] :
           n \in {Key(t) : t \in transactionsData}}

\* DashboardPage, rendered at `now` for the user logged in, once its data is fetched;
\* when one of the three requests fails none of the lists is set
DashboardPage(userID, now) ==
    LET fetched == ~\E t \in transactions : t.user_id = userID /\ ScanFails(t)
        budgetsData == IF fetched THEN {b \in budgets : b.user_id = userID} ELSE {}
        transactionsData ==
            IF fetched
            THEN {[t EXCEPT !.date = ScanTimestamp(@)] :
                    t \in {x \in transactions : x.user_id = userID}}
            ELSE {}
        categoriesData == IF fetched THEN {c \in categories : c.user_id = userID} ELSE {}
        BudgetOf(frequency) ==
            IF \E b \in budgetsData : b.frequency = frequency
            THEN (CHOOSE b \in budgetsData : b.frequency = frequency).amount
            ELSE 0
        Spending(start) == SumAmounts({t \in transactionsData : ParseDate(t.date) >= start})
    IN  /\ resp' = Served("DashboardPage", [user_id |-> userID, now |-> now],
                          respondWithJSON(0, "",
                              [weekly |-> SpendingSummaryCard("This Week",
                                              Spending(getStartOfWeek(now)), BudgetOf("weekly")),
                               monthly |-> SpendingSummaryCard("This Month",
                                              Spending(getStartOfMonth(now)), BudgetOf("monthly")),
                               yearly |-> SpendingSummaryCard("This Year",
                                              Spending(getStartOfYear(now)), BudgetOf("yearly")),
                               byCategory |-> spendingByCategory(transactionsData,
                                                                 categoriesData)]))
        /\ UNCHANGED <<tables, seq, registered, pending, browser>>

\* a time.Time in UTC on whole microseconds
UTC(wall) == [wall |-> wall, nsec |-> 0, offset |-> 0]

\* the dates of the transactions: the Monday morning of the week the dashboard is looked
\* at, the Sunday before it, a day of an earlier month, a day of the year before
DashboardDates == {UTC(At(399, 0)), UTC(At(398, 1)), UTC(At(370, 0)), UTC(At(300, 0))}

\* when the dashboard is looked at: Wednesday afternoon and Monday morning of that week,
\* and the first Sunday of the month, whose Monday lies in the month before
DashboardNow == {At(401, 1), At(399, 0), At(391, 1)}

NextDashboard ==
    \/ CreateCategory(2, "Groceries")
    \/ \E user_id \in Callers, description \in Descriptions, date \in DashboardDates,
          now \in Now :
         CreateTransaction(user_id, description, 12550, date, 1, now)
    \/ \E period \in Periods, frequency \in Frequencies, amount \in Amounts :
         CreateBudget(2, period, frequency, amount)
    \/ \E userID \in Callers, now \in DashboardNow : DashboardPage(userID, now)

SpecDashboard == InitSeeded /\ [][NextDashboard]_vars

\* the dashboard over transactions whose categories are deleted or another user's
NextGroups ==
    \/ \E user_id \in Callers, name \in CategoryNames : CreateCategory(user_id, name)
    \/ \E categoryID \in IdRange(MaxCategoryId) : DeleteCategory(categoryID)
    \/ \E user_id \in Callers, description \in Descriptions, amount \in Amounts,
          category_id \in IdRange(MaxCategoryId), now \in Now :
         CreateTransaction(user_id, description, amount, UTC(At(399, 0)), category_id, now)
    \/ \E userID \in Callers : DashboardPage(userID, At(401, 1))

SpecGroups == InitSeeded /\ [][NextGroups]_vars

(***************************************************************************)
(* UpdateBudget with its request decoded and its UPDATE not yet run, so    *)
(* that two requests are in progress at once; the UPDATE is one statement  *)
(* and sets the three columns together.                                    *)
(***************************************************************************)
\* the bodies update requests carry: two that differ in every field, and one whose
\* frequency the CHECK refuses
UpdateBodies ==
    {[period |-> 1, frequency |-> "weekly", amount |-> 12550],
     [period |-> 2, frequency |-> "monthly", amount |-> 250000],
     [period |-> 2, frequency |-> "daily", amount |-> 12550]}

\* json.NewDecoder(r.Body).Decode(&b)
UpdateBudgetBegin(conn, caller, budgetID, period, frequency, amount) ==
    /\ Idle(conn)
    /\ pending' = pending \cup
                  {[conn |-> conn, op |-> "UpdateBudget",
                    req |-> [caller |-> caller, id |-> budgetID, period |-> period,
                             frequency |-> frequency, amount |-> amount]]}
    /\ UNCHANGED <<tables, seq, resp, registered, browser>>

UpdateBudgetExecAmountOnly(conn) ==
    \E p \in pending :
      /\ p.conn = conn
      /\ p.op = "UpdateBudget"
      /\ pending' = pending \ {p}
      /\ budgets' = {IF b.id = p.req.id THEN [b EXCEPT !.amount = p.req.amount] ELSE b :
                       b \in budgets}
      /\ resp' = Served("UpdateBudget", p.req,
                        respondWithJSON(StatusOK, "Budget updated successfully", NoBody))
      /\ UNCHANGED <<users, categories, transactions, shared_budgets, seq, registered, browser>>

\* UPDATE budgets SET period=$1, frequency=$2, amount=$3 WHERE id=$4, and the answer
UpdateBudgetExec(conn) ==
    \E p \in pending :
      /\ p.conn = conn
      /\ p.op = "UpdateBudget"
      /\ pending' = pending \ {p}
      /\ IF \E b \in budgets :
              /\ b.id = p.req.id
              /\ ~(FrequencyCheck(p.req.frequency)
                     /\ FrequencyFree(b.id, b.user_id, p.req.frequency))
         THEN /\ budgets' = budgets
              /\ resp' = Served("UpdateBudget", p.req,
                                respondWithError(StatusInternalServerError,
                                                 "Failed to update budget"))
         ELSE /\ budgets' = {IF b.id = p.req.id
                             THEN [b EXCEPT !.period = p.req.period,
                                            !.frequency = p.req.frequency,
                                            !.amount = p.req.amount]
                             ELSE b : b \in budgets}
              /\ resp' = Served("UpdateBudget", p.req,
                                respondWithJSON(StatusOK, "Budget updated successfully", NoBody))
      /\ UNCHANGED <<users, categories, transactions, shared_budgets, seq, registered, browser>>

NextUpdates ==
    \/ \E user \in Callers, period \in Periods, frequency \in {"weekly", "monthly", "daily"} :
         CreateBudget(user, period, frequency, 12550)
    \/ \E conn \in Conns, budgetID \in IdRange(MaxBudgetId), b \in UpdateBodies :
         UpdateBudgetBegin(conn, 2, budgetID, b.period, b.frequency, b.amount)
    \/ \E conn \in Conns : UpdateBudgetExec(conn)
    \/ DeleteBudget(2, 1)

SpecUpdates == InitSeeded /\ [][NextUpdates]_vars

\* the updates of every table, over rows of both users
NextEdits ==
    \/ \E name \in CategoryNames : CreateCategory(2, name)
    \/ \E categoryID \in IdRange(MaxCategoryId), name \in CategoryNames :
         UpdateCategory(categoryID, name)
    \/ \E user_id \in Callers, now \in Now :
         CreateTransaction(user_id, "lunch", 12550, ZeroTime, 1, now)
    \/ \E transactionID \in IdRange(MaxTransactionId), category_id \in 0..MaxCategoryId :
         UpdateTransaction(transactionID, "rent", 250000, [wall |-> 2, nsec |-> 0, offset |-> 0],
                           category_id)
    \/ \E user_id \in Callers, period \in Periods : CreateBudget(user_id, period, "weekly", 12550)
    \/ \E caller \in Callers, budgetID \in IdRange(MaxBudgetId), b \in UpdateBodies :
         UpdateBudget(caller, budgetID, b.period, b.frequency, b.amount)
    \/ \E username \in {"alice", "carol"}, role \in RequestRoles : UpdateUser(2, username, role)

SpecEdits == InitSeeded /\ [][NextEdits]_vars

(***************************************************************************)
(* The client's session: AuthProvider keeps the logged-in user in          *)
(* localStorage under budgelloUser, with a time of expiry under            *)
(* budgelloExpiry.  browser.user is the state `user` of AuthProvider, a    *)
(* set with the user in it or the empty set for null; browser.clock is     *)
(* new Date().getTime(), in the unit of DayLength.                         *)
(***************************************************************************)
MaxClock == 62

\* 30 * 24 * 60 * 60 * 1000 milliseconds
thirtyDays == 30 * DayLength

\* String(n): the decimal digits of n
RECURSIVE String(_)
String(n) == IF n < 10 THEN <<n>> ELSE Append(String(n \div 10), n % 10)

\* Number(s) of a string of decimal digits
RECURSIVE Number(_)
Number(s) == IF s = <<>> THEN 0 ELSE 10 * Number(SubSeq(s, 1, Len(s) - 1)) + s[Len(s)]

\* JSON.stringify of a User: the names and values of the object, in order
JSONstringify(u) == <<"id", u.id, "role", u.role, "username", u.username>>

\* JSON.parse of such a text
JSONparse(text) == [id |-> text[2], role |-> text[4], username |-> text[6]]

\* localStorage.getItem(key) is not null and not the empty string
Stored(key) == key \in DOMAIN browser.localStorage /\ browser.localStorage[key] # <<>>

setItem(localStorage, key, value) ==
    [k \in DOMAIN localStorage \cup {key} |-> IF k = key THEN value ELSE localStorage[k]]

removeItem(localStorage, key) == [k \in DOMAIN localStorage \ {key} |-> localStorage[k]]

\* isAuthenticated: !!user
isAuthenticated == browser.user # {}

\* what MainContent renders
MainContent ==
    IF browser.loading THEN "Loading application..."
    ELSE IF ~isAuthenticated THEN "LoginPage" ELSE "Layout"

\* the state of the server, which nothing in the browser's session changes
server == <<tables, seq, resp, registered, pending>>

AuthProviderLoadAtExpiry ==
    /\ browser.loading
    /\ IF /\ Stored("budgelloUser")
          /\ Stored("budgelloExpiry")
          /\ browser.clock <= Number(browser.localStorage["budgelloExpiry"])
       THEN browser' = [browser EXCEPT
                          !.user = {JSONparse(browser.localStorage["budgelloUser"])},
                          !.loading = FALSE, !.did = "AuthProvider"]
       ELSE browser' = [browser EXCEPT
                          !.localStorage = removeItem(removeItem(@, "budgelloUser"),
                                                      "budgelloExpiry"),
                          !.loading = FALSE, !.did = "AuthProvider"]
    /\ UNCHANGED server

\* the effect AuthProvider runs when it is mounted
AuthProviderLoad ==
    /\ browser.loading
    /\ IF /\ Stored("budgelloUser")
          /\ Stored("budgelloExpiry")
          /\ browser.clock < Number(browser.localStorage["budgelloExpiry"])
       THEN browser' = [browser EXCEPT
                          !.user = {JSONparse(browser.localStorage["budgelloUser"])},
                          !.loading = FALSE, !.did = "AuthProvider"]
       ELSE browser' = [browser EXCEPT
                          !.localStorage = removeItem(removeItem(@, "budgelloUser"),
                                                      "budgelloExpiry"),
                          !.loading = FALSE, !.did = "AuthProvider"]
    /\ UNCHANGED server

\* what LoginPage passes to login after the server accepted the credentials
LoginData ==
    {[user_id |-> 1, role |-> "admin", username |-> "admin"],
     [user_id |-> 2, role |-> "user", username |-> "alice"]}

\* login, called by LoginPage
login(userData) ==
    /\ MainContent = "LoginPage"
    /\ LET expiry == browser.clock + thirtyDays
           userToStore == [id |-> userData.user_id, role |-> userData.role,
                           username |-> userData.username]
       IN  browser' = [browser EXCEPT
                         !.localStorage = setItem(setItem(@, "budgelloUser",
                                                          JSONstringify(userToStore)),
                                                  "budgelloExpiry", String(expiry)),
                         !.user = {userToStore}, !.did = "login"]
    /\ UNCHANGED server

\* logout, called from the layout; window.location.reload() mounts AuthProvider anew
logout ==
    /\ MainContent = "Layout"
    /\ browser' = [browser EXCEPT
                     !.localStorage = removeItem(removeItem(@, "budgelloUser"),
                                                 "budgelloExpiry"),
                     !.user = {}, !.loading = TRUE, !.did = "logout"]
    /\ UNCHANGED server

\* the page is loaded again: the state of AuthProvider is new, localStorage is kept
Reload ==
    /\ ~browser.loading
    /\ browser' = [browser EXCEPT !.user = {}, !.loading = TRUE, !.did = "reload"]
    /\ UNCHANGED server

\* time passes
Tick ==
    /\ browser.clock < MaxClock
    /\ browser' = [browser EXCEPT !.clock = @ + 1, !.did = "tick"]
    /\ UNCHANGED server

NextSession ==
    \/ AuthProviderLoad
    \/ \E userData \in LoginData : login(userData)
    \/ logout
    \/ Reload
    \/ Tick

SpecSession == Init /\ [][NextSession]_vars

(***************************************************************************)
(* Claims about the user handlers, checked under SpecUsers.                *)
(***************************************************************************)
Response(r) == [status |-> r.status, msg |-> r.msg, body |-> r.body]

InvalidLogin == respondWithError(StatusUnauthorized, "Invalid username or password")

WrongPassword(username, password) ==
    \E u \in UserByName(username) : ~CompareHashAndPassword(u.password, password)

\* C7: LoginUser answers an unknown username and a known username with a password
\* that does not match the stored hash with the same response, status Unauthorized
\* and the same message, so the response does not tell the two cases apart.
C7_LoginFailuresIdentical ==
    /\ \A n1 \in Usernames, n2 \in Usernames, p1 \in Passwords, p2 \in Passwords :
         (UserByName(n1) = {} /\ WrongPassword(n2, p2))
           => /\ LoginResult(n1, p1) = LoginResult(n2, p2)
              /\ LoginResult(n1, p1).status = StatusUnauthorized
    /\ (resp.op = "LoginUser"
          /\ (UserByName(resp.req.username) = {} \/ WrongPassword(resp.req.username, resp.req.password)))
         => Response(resp) = InvalidLogin

\* C7 witness: a login with a known username and a wrong password was refused while
\* some other username is unknown.
C7_Witness ==
    /\ resp.op = "LoginUser"
    /\ WrongPassword(resp.req.username, resp.req.password)
    /\ resp.status = StatusUnauthorized
    /\ \E n \in Usernames : UserByName(n) = {}

LoginOK(id, role) ==
    respondWithJSON(StatusOK, "Login successful", [user_id |-> id, role |-> role])

\* the users RegisterUser created that still carry the name they registered with
NotRenamed == {r \in registered : \E u \in users : u.id = r.id /\ u.username = r.username}

StoredRole(id) == (CHOOSE u \in users : u.id = id).role

\* what LoginUser must answer for the user of registration r, whose role is `role`
RegisteredLogin(r, role) ==
    /\ LoginResult(r.username, r.secret) = LoginOK(r.id, role)
    /\ \A s \in Passwords \ {r.secret} : LoginResult(r.username, s) = InvalidLogin
    /\ (resp.op = "LoginUser" /\ resp.req.username = r.username)
         => Response(resp) = IF resp.req.password = r.secret THEN LoginOK(r.id, role) ELSE InvalidLogin

C9_Step ==
    /\ (resp'.op = "RegisterUser" /\ resp'.status = StatusCreated)
         => /\ \E u \in users' \ users : u.id = resp'.body.id
            /\ \A u \in users' \ users : u.role = "user"
    /\ \A u \in users' :
         (u.role = "admin" /\ ~\E v \in users : v.id = u.id /\ v.role = "admin")
           => resp'.op \in {"createAdminUser", "UpdateUser"}

\* C9: the row RegisterUser inserts has role "user" whatever role the request carries,
\* and a step after which a user has role "admin" that it did not have before is a
\* step of createAdminUser or UpdateUser.
C9_RegisterStoresRoleUser == [][C9_Step]_vars

\* C9 witness: a registration that asked for role "admin" succeeded and its row has
\* role "user".
C9_Witness ==
    /\ resp.op = "RegisterUser"
    /\ resp.status = StatusCreated
    /\ resp.req.role = "admin"
    /\ \E u \in users : u.id = resp.body.id /\ u.role = "user"

C10_Step ==
    (resp'.op = "RegisterUser" /\ UserByName(resp'.req.username) # {})
      => /\ resp'.status = StatusConflict
         /\ users' = users

\* C10: RegisterUser with a name that already exists fails with Conflict and leaves
\* the users table, the existing user's row included, as it was.
C10_DuplicateRegisterConflict == [][C10_Step]_vars

C10_UsersKept ==
    (resp'.op = "RegisterUser" /\ UserByName(resp'.req.username) # {})
      => /\ resp'.status = StatusInternalServerError
         /\ users' = users

\* what the code does in the case of C10: Internal Server Error, the table unchanged
C10_DuplicateRegisterInternal == [][C10_UsersKept]_vars

(***************************************************************************)
(* Claims about budgets and their shares, checked under SpecBudgets.       *)
(***************************************************************************)
\* C1: ShareBudget for a budget the granter does not own (the recipient existing)
\* fails with Forbidden, and every share row's from_user_id is the user_id of the
\* budget it references.
C1_ShareOnlyOwnBudget ==
    /\ \A s \in shared_budgets, b \in budgets :
         b.id = s.budget_id => s.from_user_id = b.user_id
    /\ (resp.op = "ShareBudget" /\ resp.req.to_user_id \in UserIds
          /\ \E b \in budgets : b.id = resp.req.budget_id /\ b.user_id # resp.req.from_user_id)
         => resp.status = StatusForbidden

HasBudget(user_id, frequency) ==
    \E b \in budgets : b.user_id = user_id /\ b.frequency = frequency

C4_Step ==
    resp'.op = "CreateBudget"
      => /\ HasBudget(resp'.req.user_id, resp'.req.frequency)
              => (resp'.status = StatusConflict /\ budgets' = budgets)
         /\ (resp'.req.user_id \in UserIds /\ resp'.req.frequency \in Frequencies
               /\ ~HasBudget(resp'.req.user_id, resp'.req.frequency))
              => (resp'.status = StatusCreated /\ budgets' = budgets \cup {resp'.body})

\* C4: CreateBudget for a (user, frequency) that has a budget fails with Conflict and
\* leaves the budgets unchanged; for a user and one of the three frequencies the user
\* has no budget of, it succeeds.
C4_DuplicateBudgetConflict == [][C4_Step]_vars

C4_StepAsCoded ==
    resp'.op = "CreateBudget"
      => /\ HasBudget(resp'.req.user_id, resp'.req.frequency)
              => (resp'.status = StatusInternalServerError /\ budgets' = budgets)
         /\ (resp'.req.user_id \in UserIds /\ resp'.req.frequency \in Frequencies
               /\ ~HasBudget(resp'.req.user_id, resp'.req.frequency))
              => (resp'.status = StatusCreated /\ budgets' = budgets \cup {resp'.body})

\* what the code does in the case of C4: Internal Server Error, the budgets unchanged
C4_DuplicateBudgetInternal == [][C4_StepAsCoded]_vars

SharedTo(b, userID) ==
    \E s \in shared_budgets : s.budget_id = b.id /\ s.to_user_id = userID

C6_Step ==
    /\ resp'.op = "GetSharedBudgets"
         => \A b \in budgets : SharedTo(b, resp'.req.user_id) => b \in resp'.body
    /\ \A b \in budgets :
         (resp'.op \in {"UpdateBudget", "DeleteBudget"} /\ resp'.req.id = b.id
            /\ resp'.req.caller # b.user_id /\ SharedTo(b, resp'.req.caller))
           => b \in budgets'

\* C6: GetSharedBudgets(recipient) returns every budget shared with the recipient, and
\* an UpdateBudget or DeleteBudget request that comes from a recipient who is not the
\* owner leaves the budget's row as it was.
C6_RecipientCannotMutate == [][C6_Step]_vars

(***************************************************************************)
(* Claims about categories and transactions, checked under SpecLedger.     *)
(***************************************************************************)
Detached(t, categoryID) ==
    IF t.category_id = categoryID THEN [t EXCEPT !.category_id = NULL] ELSE t

Listed(body) == {body[i] : i \in DOMAIN body}

C2_Step ==
    /\ resp'.op = "DeleteCategory"
         => /\ resp'.status = StatusOK
            /\ transactions' = {Detached(t, resp'.req.id) : t \in transactions}
    /\ (resp'.op = "GetTransactions"
          /\ \E t \in transactions : t.user_id = resp'.req.user_id /\ t.category_id = NULL)
         => /\ resp'.status = StatusOK
            /\ Listed(resp'.body) = {t \in transactions : t.user_id = resp'.req.user_id}

\* C2: DeleteCategory succeeds and keeps every transaction, those that referenced the
\* category with an empty reference; GetTransactions for the owner of such a
\* transaction succeeds and returns the owner's transactions.
C2_DetachedTransactionsListed == [][C2_Step]_vars

C2_StepAsCoded ==
    /\ resp'.op = "DeleteCategory"
         => /\ resp'.status = StatusOK
            /\ transactions' = {Detached(t, resp'.req.id) : t \in transactions}
    /\ (resp'.op = "GetTransactions"
          /\ \E t \in transactions : t.user_id = resp'.req.user_id /\ t.category_id = NULL)
         => resp'.status = StatusInternalServerError

\* what the code does in the case of C2: the transactions are kept and detached, and
\* listing them fails
C2_DetachedTransactionsUnreadable == [][C2_StepAsCoded]_vars

HasCategory(user_id, name) ==
    \E c \in categories : c.user_id = user_id /\ c.name = name

C5_Step ==
    resp'.op = "CreateCategory"
      => /\ HasCategory(resp'.req.user_id, resp'.req.name)
              => (resp'.status = StatusConflict /\ categories' = categories)
         /\ (resp'.req.user_id \in UserIds /\ ~HasCategory(resp'.req.user_id, resp'.req.name))
              => (resp'.status = StatusCreated /\ categories' = categories \cup {resp'.body})

\* C5: CreateCategory for an (owner, name) that exists fails with Conflict and leaves
\* the categories unchanged; a name the owner does not have, another owner's names
\* included, is accepted.
C5_DuplicateCategoryConflict == [][C5_Step]_vars

C5_StepAsCoded ==
    resp'.op = "CreateCategory"
      => /\ HasCategory(resp'.req.user_id, resp'.req.name)
              => (resp'.status = StatusInternalServerError /\ categories' = categories)
         /\ (resp'.req.user_id \in UserIds /\ ~HasCategory(resp'.req.user_id, resp'.req.name))
              => (resp'.status = StatusCreated /\ categories' = categories \cup {resp'.body})

\* what the code does in the case of C5: Internal Server Error, the categories unchanged
C5_DuplicateCategoryInternal == [][C5_StepAsCoded]_vars

(***************************************************************************)
(* Claims about the deletion of a user, checked under SpecCascade.         *)
(***************************************************************************)
OwnedBy(rows, userID) == {r \in rows : r.user_id = userID}

SharesUnder(userID) ==
    {s \in shared_budgets :
       \/ s.from_user_id = userID
       \/ s.to_user_id = userID
       \/ \E b \in OwnedBy(budgets, userID) : b.id = s.budget_id}

\* nothing of the deleted user is left
Removed(userID) ==
    /\ OwnedBy(categories', userID) = {}
    /\ OwnedBy(transactions', userID) = {}
    /\ OwnedBy(budgets', userID) = {}
    /\ shared_budgets' = shared_budgets \ SharesUnder(userID)
    /\ users' = {u \in users : u.id # userID}

C3_Step ==
    (resp'.op = "DeleteUser" /\ resp'.status = StatusOK)
      => /\ Removed(resp'.req.id)
         /\ categories' = categories \ OwnedBy(categories, resp'.req.id)
         /\ transactions' = transactions \ OwnedBy(transactions, resp'.req.id)
         /\ budgets' = budgets \ OwnedBy(budgets, resp'.req.id)

\* C3: after DeleteUser(u) succeeds no category, transaction or budget of u is left, nor
\* a share that u granted or received or that references a budget of u, and the rows
\* of every other user are as they were.
C3_DeleteUserCascade == [][C3_Step]_vars

C3_StepAsCoded ==
    (resp'.op = "DeleteUser" /\ resp'.status = StatusOK)
      => /\ Removed(resp'.req.id)
         /\ categories' = categories \ OwnedBy(categories, resp'.req.id)
         /\ transactions' = {SetNullCategory(t, {c.id : c \in OwnedBy(categories, resp'.req.id)}) :
                               t \in transactions \ OwnedBy(transactions, resp'.req.id)}
         /\ budgets' = budgets \ OwnedBy(budgets, resp'.req.id)

\* what the code does in the case of C3: the rows of u are removed, and a transaction
\* of another user that references a category of u loses its category
C3_DeleteUserCascadeDetaching == [][C3_StepAsCoded]_vars

(***************************************************************************)
(* Claims about what the user handlers disclose, checked under SpecUsers.  *)
(* A secret is a plaintext password of a request or of the configuration,  *)
(* or a stored hash.  The username and role fields carry the public name   *)
(* and role (the configured admin password may spell the same word as the  *)
(* admin's name and role: that is not a disclosure).                       *)
(***************************************************************************)
Plaintexts == Passwords \cup {AdminPassword}

UserOps == {"RegisterUser", "LoginUser", "GetAllUsers"}

\* a user object of a response: its password field is empty (omitted from the JSON)
\* and it has no other field than id, username, password and role
NoPassword(o) == DOMAIN o = {"id", "username", "password", "role"} /\ o.password = ""

\* C11: no response of RegisterUser, LoginUser or GetAllUsers carries a plaintext
\* password or a stored hash: a success response has only id, name and role (the user
\* objects with an empty password field, the login response with user_id and role),
\* and an error response has a fixed message and no body.
C11_NoPasswordInResponse ==
    resp.op \in UserOps =>
      /\ resp.msg \notin Passwords
      /\ (resp.op = "RegisterUser" /\ resp.status = StatusCreated)
           => (NoPassword(resp.body) /\ resp.body.username = resp.req.username
                 /\ resp.body.role = resp.req.role)
      /\ (resp.op = "LoginUser" /\ resp.status = StatusOK)
           => (DOMAIN resp.body = {"user_id", "role"}
                 /\ \E u \in users : u.id = resp.body.user_id /\ u.role = resp.body.role)
      /\ resp.op = "GetAllUsers"
           => (resp.status = StatusOK /\ \A o \in resp.body : NoPassword(o))
      /\ (resp.op # "GetAllUsers" /\ resp.status \notin {StatusOK, StatusCreated})
           => resp.body = NoBody

\* C11 witness: a login with the right password succeeded, the user's row holding the
\* hash of that password.
C11_Witness ==
    /\ resp.op = "LoginUser"
    /\ resp.status = StatusOK
    /\ resp.req.password \in Plaintexts
    /\ \E u \in users : u.id = resp.body.user_id
                          /\ CompareHashAndPassword(u.password, resp.req.password)

(***************************************************************************)
(* Claims about the startup bootstrap, checked under SpecUsers.            *)
(***************************************************************************)
C12_Step ==
    resp'.op = "createAdminUser" =>
      /\ UserByName(AdminUsername) # {} => (users' = users /\ seq' = seq)
      /\ UserByName(AdminUsername) = {}
           => /\ users \subseteq users'
              /\ Cardinality(users' \ users) = 1
              /\ \A u \in users' \ users : u.username = AdminUsername /\ u.role = "admin"
      \* the state it leaves is one a further run changes nothing in
      /\ UserByName(AdminUsername)' # {}
      /\ <<categories, transactions, budgets, shared_budgets>>' =
           <<categories, transactions, budgets, shared_budgets>>

\* C12: createAdminUser changes nothing when a user with the configured admin name
\* exists (its role and password stay as they are), otherwise it inserts exactly one
\* user with that name and role "admin"; after it a user with that name exists, so
\* every further run is the first case and the users table stays as one run left it.
C12_CreateAdminUserIdempotent == [][C12_Step]_vars

\* C12 witness: createAdminUser has run over a database whose user with the admin name
\* had been given role "user", and that row still has role "user".
C12_Witness ==
    /\ resp.op = "createAdminUser"
    /\ \E u \in UserByName(AdminUsername) : u.role = "user"

(***************************************************************************)
(* Further claims about shares, checked under SpecBudgets.                 *)
(***************************************************************************)
C13_Step ==
    (resp'.op = "ShareBudget" /\ resp'.req.to_user_id \notin UserIds)
      => /\ resp'.status = StatusNotFound
         /\ shared_budgets' = shared_budgets

\* C13: ShareBudget with a recipient id that is the id of no user fails with NotFound
\* and inserts no share row.
C13_UnknownRecipientNotFound == [][C13_Step]_vars

C13_StepAsCoded ==
    (resp'.op = "ShareBudget" /\ resp'.req.to_user_id \notin UserIds)
      => /\ resp'.status = StatusBadRequest
         /\ shared_budgets' = shared_budgets

\* what the code does in the case of C13: Bad Request, no share row inserted
C13_UnknownRecipientBadRequest == [][C13_StepAsCoded]_vars

(***************************************************************************)
(* Claims about concurrent requests, checked under SpecInterleaved.        *)
(***************************************************************************)
\* UNIQUE(budget_id, to_user_id) holds of the rows `rows`
OneSharePerPair(rows) ==
    \A s1 \in rows, s2 \in rows :
      (s1.budget_id = s2.budget_id /\ s1.to_user_id = s2.to_user_id) => s1 = s2

\* the ShareBudget requests whose INSERT this step runs for a pair that is shared already
DuplicateInserted ==
    {p \in pending \ pending' :
       p.op = "ShareBudget" /\ ~ShareFree(p.req.budget_id, p.req.to_user_id)}

C14_Step ==
    /\ OneSharePerPair(shared_budgets')
    /\ DuplicateInserted # {}
         => (resp'.status = StatusConflict /\ shared_budgets' = shared_budgets)

\* C14: there is at most one share row per (budget id, recipient id) in every state,
\* and a ShareBudget for a pair that is shared already fails with Conflict and leaves
\* the share rows as they are, also when two such requests run concurrently.
C14_DuplicateShareConflict == [][C14_Step]_vars

C14_StepAsCoded ==
    /\ OneSharePerPair(shared_budgets')
    /\ DuplicateInserted # {}
         => (resp'.status = StatusInternalServerError /\ shared_budgets' = shared_budgets)

\* what the code does in the case of C14: Internal Server Error, the rows unchanged
C14_DuplicateShareInternal == [][C14_StepAsCoded]_vars

\* C16: once DeleteBudget has answered success for budget b, b is no row of budgets and
\* no share row references b, whatever ShareBudget statements ran between its two
\* DELETE statements; and a share row never references a budget that does not exist.
C16_DeletedBudgetLeavesNoShare ==
    /\ (resp.op = "DeleteBudget" /\ resp.status = StatusOK)
         => (resp.req.id \notin BudgetIds
               /\ \A s \in shared_budgets : s.budget_id # resp.req.id)
    /\ \A s \in shared_budgets : s.budget_id \in BudgetIds

\* C16 witness: a DeleteBudget of b has run its first DELETE and not yet its second,
\* and a share row referencing b exists: a ShareBudget inserted it in between.
C16_Witness ==
    \E p \in pending :
      /\ p.op = "DeleteBudget"
      /\ \E s \in shared_budgets : s.budget_id = p.req.id

(***************************************************************************)
(* Claims about the listing of shared budgets, checked under SpecBudgets.  *)
(***************************************************************************)
\* the budgets a share row with recipient r exists for
SharedToRecipient(r) ==
    {b \in budgets : \E s \in shared_budgets : s.to_user_id = r /\ s.budget_id = b.id}

\* the shares DeleteSharedBudget removes in this step
Unshared == {s \in shared_budgets : resp'.op = "DeleteSharedBudget" /\ s.id = resp'.req.id}

C15_Step ==
    /\ resp'.op = "GetSharedBudgets"
         => /\ resp'.status = StatusOK
            /\ resp'.body = SharedToRecipient(resp'.req.user_id)
            /\ \A b \in resp'.body : b.user_id # resp'.req.user_id
    /\ \A s \in Unshared :
         ~\E b \in SharedWith(s.to_user_id)' : b.id = s.budget_id

\* C15: GetSharedBudgets(r) returns exactly the budgets a share row with recipient r
\* exists for, each owned by a user other than r, and after DeleteSharedBudget of a
\* share its budget is not among the budgets shared with its recipient.
C15_SharedBudgetsOfOthers == [][C15_Step]_vars

C15_StepAsCoded ==
    /\ resp'.op = "GetSharedBudgets"
         => /\ resp'.status = StatusOK
            /\ resp'.body = SharedToRecipient(resp'.req.user_id)
    /\ \A s \in Unshared :
         ~\E b \in SharedWith(s.to_user_id)' : b.id = s.budget_id

\* what the code does in the case of C15: the budgets shared with r, r's own included
C15_SharedBudgetsListed == [][C15_StepAsCoded]_vars

(***************************************************************************)
(* Claims about failed requests, checked under SpecFaults.                 *)
(***************************************************************************)
ErrorStatus(status) == status \notin {StatusOK, StatusCreated}

C17_Step == ErrorStatus(resp'.status) => tables' = tables

\* C17: a request answered with an error leaves every table as it was before the
\* request: a DeleteBudget answered with an error has removed neither the budget nor a
\* share of it, and a refused update has changed no field.
C17_ErrorLeavesStore == [][C17_Step]_vars

C17_StepAsCoded ==
    ErrorStatus(resp'.status)
      => \/ tables' = tables
         \/ /\ resp'.op = "DeleteBudget"
            /\ resp'.msg = "Failed to delete budget"
            /\ shared_budgets' = shared_budgets \ SharesOfBudgets({resp'.req.id})
            /\ <<users, categories, transactions, budgets>>' =
                 <<users, categories, transactions, budgets>>

\* what the code does in the case of C17: only a DeleteBudget whose second DELETE
\* failed has changed a table, the shares of the budget being gone
C17_ErrorLeavesStoreButShares == [][C17_StepAsCoded]_vars

(***************************************************************************)
(* Claims about the transaction handlers, checked under SpecLedger.        *)
(***************************************************************************)
\* the row a successful CreateTransaction of this step inserted
Created == {t \in transactions' \ transactions : t.id = resp'.body.id}

\* the date CreateTransaction gives the INSERT: the request's, or the time of creation
DateGiven(date) == IF IsZero(date) THEN Now ELSE {date}

C18_Step ==
    (resp'.op = "CreateTransaction" /\ resp'.status = StatusCreated)
      => /\ Created # {}
         /\ resp'.body.date \in DateGiven(resp'.req.date)
         /\ \A t \in Created : ScanTimestamp(t.date) = resp'.body.date

\* C18: the response of a successful CreateTransaction carries the id of the row it
\* inserted and the date that row holds (what a read of the row returns), which is the
\* request's date when it has one and the time of creation when it has none.
C18_ResponseCarriesStoredDate == [][C18_Step]_vars

C18_StepAsCoded ==
    (resp'.op = "CreateTransaction" /\ resp'.status = StatusCreated)
      => /\ Created # {}
         /\ resp'.body.date \in DateGiven(resp'.req.date)
         /\ \A t \in Created : t.date = Timestamp(resp'.body.date)

\* what the code does in the case of C18: the response carries the date given to the
\* INSERT; the row holds its wall clock reading in whole microseconds, without the zone
C18_ResponseCarriesGivenDate == [][C18_StepAsCoded]_vars

\* the rows of user u as a read returns them
OwnedScanned(u) ==
    {[t EXCEPT !.date = ScanTimestamp(@)] : t \in {x \in transactions : x.user_id = u}}

NewestFirst(body) ==
    \A i \in DOMAIN body, j \in DOMAIN body : i < j => body[i].date.wall >= body[j].date.wall

C19_Step ==
    resp'.op = "GetTransactions"
      => /\ resp'.status = StatusOK
         /\ Len(resp'.body) = Cardinality(OwnedScanned(resp'.req.user_id))
         /\ Listed(resp'.body) = OwnedScanned(resp'.req.user_id)
         /\ NewestFirst(resp'.body)

\* C19: GetTransactions(u) returns exactly the stored transactions whose user_id is u,
\* each once and none of another user, ordered by date from newest to oldest.
C19_ListsOwnNewestFirst == [][C19_Step]_vars

C19_StepAsCoded ==
    resp'.op = "GetTransactions"
      => IF \E t \in transactions : t.user_id = resp'.req.user_id /\ t.category_id = NULL
         THEN resp'.status = StatusInternalServerError /\ resp'.body = NoBody
         ELSE /\ resp'.status = StatusOK
              /\ Len(resp'.body) = Cardinality(OwnedScanned(resp'.req.user_id))
              /\ Listed(resp'.body) = OwnedScanned(resp'.req.user_id)
              /\ NewestFirst(resp'.body)

\* what the code does in the case of C19: the listing fails while u has a transaction
\* without category, and is as claimed otherwise
C19_ListsOwnUnlessDetached == [][C19_StepAsCoded]_vars

(***************************************************************************)
(* Claims about the dashboard, checked under SpecDashboard.                *)
(***************************************************************************)
\* the current period start: the Monday at or before now, the first day of now's month,
\* the first day of now's year, each at the start of the day
PeriodStart(frequency, now) ==
    LET day == DayIndex(now)
    IN  CASE frequency = "weekly" -> At(day - (day % DaysPerWeek), 0)
          [] frequency = "monthly" -> At(day - (day % DaysPerMonth), 0)
          [] frequency = "yearly" -> At(day - (day % (DaysPerMonth * MonthsPerYear)), 0)

\* the period starts the dashboard computes
PeriodStartAsCoded(frequency, now) ==
    CASE frequency = "weekly" -> getStartOfWeek(now)
      [] frequency = "monthly" -> getStartOfMonth(now)
      [] frequency = "yearly" -> getStartOfYear(now)

\* the sum of the amounts of the stored transactions of user u dated at or after start
PeriodSpend(u, start) ==
    SumAmounts({t \in transactions : t.user_id = u /\ t.date >= start})

\* the amount of the budget of user u for a frequency, 0 when u has none
BudgetAmount(u, frequency) ==
    IF \E b \in budgets : b.user_id = u /\ b.frequency = frequency
    THEN (CHOOSE b \in budgets : b.user_id = u /\ b.frequency = frequency).amount
    ELSE 0

\* the difference a card displays: the amount shown, negative under "Over Budget"
Displayed(card) == IF card.label = "Over Budget" THEN -card.shown ELSE card.shown

\* a card shows spend, budget and their difference, flagged exactly when negative
CardOf(card, spend, budget) ==
    /\ card.spent = spend
    /\ Displayed(card) = budget - spend
    /\ card.isOverBudget <=> (budget - spend < 0)

\* C20: for each frequency the dashboard's period spend is the sum of the amounts of the
\* user's transactions dated at or after the current period start, the remaining it
\* displays is the budget amount minus that spend, and the period is flagged over
\* budget exactly when the difference is negative.
C20_DashboardPeriodSpend ==
    resp.op = "DashboardPage" =>
      \A f \in Frequencies :
        CardOf(resp.body[f], PeriodSpend(resp.req.user_id, PeriodStart(f, resp.req.now)),
               BudgetAmount(resp.req.user_id, f))

\* what the code does in the case of C20: the same, the week taken to start on its
\* Monday at the time of day the dashboard is looked at
C20_DashboardSpendAsCoded ==
    resp.op = "DashboardPage" =>
      \A f \in Frequencies :
        CardOf(resp.body[f], PeriodSpend(resp.req.user_id, PeriodStartAsCoded(f, resp.req.now)),
               BudgetAmount(resp.req.user_id, f))

(***************************************************************************)
(* Claims about the period starts, checked under SpecDashboard.            *)
(***************************************************************************)
\* the dates around the turn of a year and of a month
CalendarDates == At(357, 0)..At(393, 1)

\* the day getStartOfWeek gives is the Monday at or before the day of now, the day
\* getStartOfMonth gives the first of now's month, the day getStartOfYear gives the
\* first of now's year
PeriodStartDays(now) ==
    /\ getDay(getStartOfWeek(now)) = 1
    /\ DayIndex(getStartOfWeek(now)) <= DayIndex(now)
    /\ DayIndex(now) - DayIndex(getStartOfWeek(now)) <= 6
    /\ getDate(getStartOfMonth(now)) = 1
    /\ getMonth(getStartOfMonth(now)) = getMonth(now)
    /\ getFullYear(getStartOfMonth(now)) = getFullYear(now)
    /\ getDate(getStartOfYear(now)) = 1
    /\ getMonth(getStartOfYear(now)) = 0
    /\ getFullYear(getStartOfYear(now)) = getFullYear(now)

\* C21: the weekly period start is on the most recent Monday at or before now, never a
\* later day and never more than 6 days earlier, also when now is a Sunday; the monthly
\* one is on the first day of now's month and the yearly one on the first day of now's
\* year.
C21_PeriodStartDays ==
    /\ resp.op = "DashboardPage" => PeriodStartDays(resp.req.now)
    /\ \A now \in CalendarDates : PeriodStartDays(now)

\* C21 witness: the dashboard was rendered on a Sunday whose Monday lies in the month
\* before.
C21_Witness ==
    /\ resp.op = "DashboardPage"
    /\ getDay(resp.req.now) = 0
    /\ getMonth(getStartOfWeek(resp.req.now)) # getMonth(resp.req.now)

(***************************************************************************)
(* Claims about spending by category, checked under SpecGroups.            *)
(***************************************************************************)
\* the group a stored transaction belongs to: the name of its category among those of
\* its user, "Uncategorized" when it has none there
GroupOf(t) ==
    IF \E c \in categories : c.id = t.category_id /\ c.user_id = t.user_id
    THEN (CHOOSE c \in categories : c.id = t.category_id).name
    ELSE "Uncategorized"

RECURSIVE SumValues(_)
SumValues(groups) ==
    IF groups = {} THEN 0
    ELSE LET g == CHOOSE x \in groups : TRUE IN g.value + SumValues(groups \ {g})

\* the groups are those of the transactions of user u, each with the sum of its
\* transactions, and their totals sum to the total of u's transactions
GroupedFor(groups, u) ==
    LET owned == {t \in transactions : t.user_id = u}
    IN  /\ \A t \in owned :
             Cardinality({g \in groups : g.name = GroupOf(t)}) = 1
        /\ \A g \in groups :
             g.value = SumAmounts({t \in owned : GroupOf(t) = g.name})
        /\ \A g \in groups : \E t \in owned : GroupOf(t) = g.name
        /\ SumValues(groups) = SumAmounts(owned)

\* C22: spending by category puts every transaction of the user in exactly one group,
\* named after its category as the user's categories list it or "Uncategorized" when
\* the category is empty or gone, so that the group totals sum to the total of the
\* user's transaction amounts.
C22_GroupsCoverTransactions ==
    resp.op = "DashboardPage" => GroupedFor(resp.body.byCategory, resp.req.user_id)

\* what the code does in the case of C22: no group at all while the user has a
\* transaction whose category is empty, the groups as claimed otherwise
C22_GroupsUnlessDetached ==
    resp.op = "DashboardPage" =>
      IF \E t \in transactions : t.user_id = resp.req.user_id /\ t.category_id = NULL
      THEN resp.body.byCategory = {}
      ELSE GroupedFor(resp.body.byCategory, resp.req.user_id)

(***************************************************************************)
(* Claims about requests addressed to an id, checked under SpecBudgets     *)
(* (and, as coded, under SpecUsers and SpecLedger too).                    *)
(***************************************************************************)
\* the ids of the rows an update or delete operation addresses
IdsAddressedBy(op) ==
    CASE op \in {"UpdateUser", "DeleteUser"} -> UserIds
      [] op \in {"UpdateCategory", "DeleteCategory"} -> CategoryIds
      [] op \in {"UpdateTransaction", "DeleteTransaction"} -> {t.id : t \in transactions}
      [] op \in {"UpdateBudget", "DeleteBudget"} -> BudgetIds
      [] op = "DeleteSharedBudget" -> {s.id : s \in shared_budgets}

AddressedOps ==
    {"UpdateUser", "DeleteUser", "UpdateCategory", "DeleteCategory", "UpdateTransaction",
     "DeleteTransaction", "UpdateBudget", "DeleteBudget", "DeleteSharedBudget"}

\* this step answers an update or delete of an id that no row has
MissingAddressed == resp'.op \in AddressedOps /\ resp'.req.id \notin IdsAddressedBy(resp'.op)

C23_Step == MissingAddressed => (resp'.status = StatusNotFound /\ tables' = tables)

\* C23: an update or delete addressed to an id that does not exist answers NotFound,
\* not success, and changes nothing.
C23_MissingIdNotFound == [][C23_Step]_vars

C23_StepAsCoded ==
    MissingAddressed
      => /\ tables' = tables
         /\ resp'.status = IF resp'.op = "DeleteUser" THEN StatusNotFound ELSE StatusOK

\* what the code does in the case of C23: nothing changes, DeleteUser answers NotFound
\* and every other operation answers success
C23_MissingIdSuccess == [][C23_StepAsCoded]_vars

(***************************************************************************)
(* Claims about concurrent budget updates, checked under SpecUpdates.     *)
(***************************************************************************)
\* the update requests whose UPDATE has not run yet
UpdatesInProgress == {p \in pending : p.op = "UpdateBudget"}

\* the (period, frequency, amount) of a budget row or of an update request
Triple(r) == <<r.period, r.frequency, r.amount>>

\* what the budgets table refuses of an update request, whatever the row's own fields are
Refused(req) ==
    \E b \in budgets :
      /\ b.id = req.id
      /\ \/ req.frequency \notin Frequencies
         \/ \E c \in budgets :
              c.id # b.id /\ c.user_id = b.user_id /\ c.frequency = req.frequency

C24_Step ==
    \A p \in UpdatesInProgress :
      (pending' = pending \ {p}) =>
        /\ resp'.req = p.req
        /\ resp'.status = (IF Refused(p.req) THEN StatusInternalServerError ELSE StatusOK)
        /\ IF Refused(p.req)
           THEN budgets' = budgets
           ELSE /\ {b.id : b \in budgets'} = {b.id : b \in budgets}
                /\ \A b \in budgets :
                     IF b.id = p.req.id
                     THEN [id |-> b.id, user_id |-> b.user_id, period |-> p.req.period,
                           frequency |-> p.req.frequency, amount |-> p.req.amount]
                            \in budgets'
                     ELSE b \in budgets'

\* C24: when update requests for one budget are in progress together, each UPDATE that
\* runs writes the complete (period, frequency, amount) of its own request, so the row
\* carries the triple of the request applied last and never a mixture; a request is
\* refused only for what its own body asks against the other rows, never because of the
\* other request, and an update in progress can always run.
C24_LastWriterWins ==
    /\ [][C24_Step]_vars
    /\ [](\A p \in UpdatesInProgress : ENABLED UpdateBudgetExec(p.conn))

\* an update was applied while another one for the same budget, differing in every
\* field, was in progress, and the row carries the applied one's triple
C24_Witness ==
    /\ resp.op = "UpdateBudget"
    /\ resp.status = StatusOK
    /\ \E p \in UpdatesInProgress :
         /\ p.req.id = resp.req.id
         /\ p.req.period # resp.req.period
         /\ p.req.frequency # resp.req.frequency
         /\ p.req.amount # resp.req.amount
         /\ \E b \in budgets :
              /\ b.id = resp.req.id
              /\ Triple(b) = Triple(resp.req)
              /\ Triple(b) # <<1, "weekly", 12550>>

\* UNIQUE(user_id, frequency) and the CHECK on frequency, as properties of the table
OneBudgetPerFrequency ==
    /\ \A b \in budgets : b.frequency \in Frequencies
    /\ \A b, c \in budgets :
         (b.user_id = c.user_id /\ b.frequency = c.frequency) => b.id = c.id

C25_Step ==
    \A p \in UpdatesInProgress :
      (pending' = pending \ {p} /\ Refused(p.req)) =>
        /\ resp'.op = "UpdateBudget"
        /\ resp'.status # StatusOK
        /\ budgets' = budgets

\* C25: in every reachable state there is at most one budget per (owning user id,
\* frequency) and every frequency is weekly, monthly or yearly, whatever the order in
\* which budgets are created, updated (also to another frequency) and deleted; an update
\* that would break this is refused and leaves the budgets as they were.
C25_OneBudgetPerFrequency ==
    /\ []OneBudgetPerFrequency
    /\ [][C25_Step]_vars

\* an update to a frequency that another budget of the same user has was refused
C25_Witness ==
    /\ resp.op = "UpdateBudget"
    /\ resp.status = StatusInternalServerError
    /\ resp.req.frequency \in Frequencies
    /\ \E b, c \in budgets :
         /\ b.id = resp.req.id
         /\ c.id # b.id
         /\ c.user_id = b.user_id
         /\ c.frequency = resp.req.frequency
         /\ b.frequency # c.frequency

\* UNIQUE on users.username, as a property of the table
NamesUnique == \A u, v \in users : u.username = v.username => u.id = v.id

\* the users whose name a step changes
Renamed == {u \in users : \E v \in users' : v.id = u.id /\ v.username # u.username}

\* C26: user names are unique in every reachable state and the name of a user never
\* changes after creation, whatever the order of registrations, user updates and
\* restarts of the server.
C26_NamesUniqueImmutable ==
    /\ []NamesUnique
    /\ [][Renamed = {}]_vars

\* What the code does: names are unique, and the only step that changes a name is a
\* UpdateUser that was answered 200, which changes the name of the user it addresses.
C26_NamesUniqueUnlessUpdated ==
    /\ []NamesUnique
    /\ [][Renamed # {} =>
            /\ resp'.op = "UpdateUser"
            /\ resp'.status = StatusOK
            /\ Renamed = {u \in users : u.id = resp'.req.id}]_vars

(***************************************************************************)
(* Claims about the client's session, checked under SpecSession.          *)
(***************************************************************************)
\* the stored session is there and its expiry is later than the clock
SessionValid ==
    /\ {"budgelloUser", "budgelloExpiry"} \subseteq DOMAIN browser.localStorage
    /\ Number(browser.localStorage["budgelloExpiry"]) > browser.clock

C27_Step ==
    /\ (browser.loading /\ browser'.did = "AuthProvider") =>
         /\ (browser'.user # {}) <=> SessionValid
         /\ SessionValid =>
              /\ browser'.localStorage = browser.localStorage
              /\ browser'.user = {JSONparse(browser.localStorage["budgelloUser"])}
         /\ ~SessionValid => DOMAIN browser'.localStorage = {}
    /\ (browser' # browser /\ browser'.did = "login") =>
         /\ browser'.user # {}
         /\ browser'.localStorage["budgelloUser"] = JSONstringify(CHOOSE u \in browser'.user : TRUE)
         /\ Number(browser'.localStorage["budgelloExpiry"]) = browser.clock + 30 * DayLength
    /\ (browser' # browser /\ browser'.did = "logout") =>
         /\ browser'.user = {}
         /\ DOMAIN browser'.localStorage = {}

\* C27: when the application loads, the user is authenticated exactly if a session is
\* stored whose expiry is later than the current time, and then as the stored user; an
\* expired or missing session leaves the user unauthenticated and both entries removed;
\* login stores the expiry as the time of login plus 30 days; logout removes both
\* entries and leaves the user unauthenticated.  The two entries are always stored or
\* removed together.
C27_SessionExpiry ==
    /\ [][C27_Step]_vars
    /\ [](DOMAIN browser.localStorage \in {{}, {"budgelloUser", "budgelloExpiry"}})
    /\ []((MainContent = "Layout") <=> (~browser.loading /\ browser.user # {}))

\* the application was loaded at the last instant before the expiry of a session stored
\* 30 days less one instant before, and the user is authenticated
C27_Witness ==
    /\ browser.did = "AuthProvider"
    /\ browser.user # {}
    /\ Stored("budgelloExpiry")
    /\ Number(browser.localStorage["budgelloExpiry"]) = browser.clock + 1
    /\ MainContent = "Layout"

(***************************************************************************)
(* Claims about what the updates leave alone, checked under SpecEdits.    *)
(***************************************************************************)
\* every row of the table before the step is in the table after it with the same id and
\* owner, and the rows other than `id` are the same
Kept(before, after, id) ==
    /\ {r.id : r \in after} = {r.id : r \in before}
    /\ \A r \in before : \A s \in after : s.id = r.id => s.user_id = r.user_id
    /\ {r \in after : r.id # id} = {r \in before : r.id # id}

C28_Step ==
    /\ resp'.op = "UpdateCategory" =>
         /\ Kept(categories, categories', resp'.req.id)
         /\ \A c \in categories : \E d \in categories' : d = [c EXCEPT !.name = d.name]
         /\ UNCHANGED <<users, transactions, budgets, shared_budgets>>
    /\ resp'.op = "UpdateTransaction" =>
         /\ Kept(transactions, transactions', resp'.req.id)
         /\ \A t \in transactions : \E u \in transactions' :
              u = [t EXCEPT !.description = u.description, !.amount = u.amount,
                            !.date = u.date, !.category_id = u.category_id]
         /\ UNCHANGED <<users, categories, budgets, shared_budgets>>
    /\ resp'.op = "UpdateBudget" =>
         /\ Kept(budgets, budgets', resp'.req.id)
         /\ \A b \in budgets : \E c \in budgets' :
              c = [b EXCEPT !.period = c.period, !.frequency = c.frequency,
                            !.amount = c.amount]
         /\ UNCHANGED <<users, categories, transactions, shared_budgets>>
    /\ resp'.op = "UpdateUser" =>
         /\ {u.id : u \in users'} = {u.id : u \in users}
         /\ \A u \in users : \E v \in users' :
              v = [u EXCEPT !.username = v.username, !.role = v.role]
         /\ {u \in users' : u.id # resp'.req.id} = {u \in users : u.id # resp'.req.id}
         /\ UNCHANGED <<categories, transactions, budgets, shared_budgets>>

\* C28: an update never changes the owning user id of a category, transaction or budget:
\* UpdateCategory changes only the name, UpdateTransaction only description, amount, date
\* and category id, UpdateBudget only period, frequency and amount, UpdateUser only the
\* name and the role and never the stored password hash; each update leaves every row
\* other than the one it addresses, and every other table, unchanged.
C28_UpdatesKeepTheRest == [][C28_Step]_vars

\* bob updated a budget that alice owns: its amount is the request's, its owner is alice
C28_Witness ==
    /\ resp.op = "UpdateBudget"
    /\ resp.status = StatusOK
    /\ resp.req.caller = 3
    /\ \E b \in budgets :
         /\ b.id = resp.req.id
         /\ b.user_id = 2
         /\ b.amount = 250000
         /\ b.frequency = "monthly"

(***************************************************************************)
(* Claims about the category a transaction references, checked under      *)
(* SpecLedger.                                                             *)
(***************************************************************************)
\* the transactions that reference a category
Categorised == {t \in transactions : t.category_id # NULL}

\* C29: in every reachable state a transaction whose category reference is not empty
\* references a category owned by the user who owns the transaction.
C29_CategoryOfSameUser ==
    \A t \in Categorised :
      \E c \in categories : c.id = t.category_id /\ c.user_id = t.user_id

\* What the code does: the reference is to a category that exists, of whichever user.
C29_CategoryExists ==
    \A t \in Categorised : \E c \in categories : c.id = t.category_id

(***************************************************************************)
(* Claims about the time of day of the period starts, checked under       *)
(* SpecDashboard.                                                          *)
(***************************************************************************)
\* the time of day of a date, 0 at 00:00
TimeOfDay(d) == d % DayLength

\* 00:00 of the Monday of the week of now (day 0 is a Monday)
MondayMidnight(now) == At(DayIndex(now) - (DayIndex(now) % DaysPerWeek), 0)

\* C30: the weekly period start is 00:00 of the Monday of the current week, whatever the
\* time of day it is computed at, so that every transaction of the user dated on that
\* Monday or later is counted in the weekly spending; the monthly and yearly starts are
\* at 00:00 as well.
C30_WeekStartsAtMidnight ==
    resp.op = "DashboardPage" =>
      /\ getStartOfWeek(resp.req.now) = MondayMidnight(resp.req.now)
      /\ TimeOfDay(getStartOfMonth(resp.req.now)) = 0
      /\ TimeOfDay(getStartOfYear(resp.req.now)) = 0
      /\ resp.body["weekly"].spent =
           SumAmounts({t \in transactions :
                         /\ t.user_id = resp.req.user_id
                         /\ t.date >= MondayMidnight(resp.req.now)})

\* What the code does: the weekly start is on that Monday at the time of day of now, and
\* the transactions of the Monday dated before that time of day are not counted.
C30_WeekStartsAtTimeOfNow ==
    resp.op = "DashboardPage" =>
      /\ getStartOfWeek(resp.req.now) = MondayMidnight(resp.req.now) + TimeOfDay(resp.req.now)
      /\ TimeOfDay(getStartOfMonth(resp.req.now)) = 0
      /\ TimeOfDay(getStartOfYear(resp.req.now)) = 0
      /\ resp.body["weekly"].spent =
           SumAmounts({t \in transactions :
                         /\ t.user_id = resp.req.user_id
                         /\ t.date >= MondayMidnight(resp.req.now) + TimeOfDay(resp.req.now)})

====
